---------------------------- MODULE Spec2Model ----------------------------
(***************************************************************************)
(* Model of the CA-masters episode engine.                                 *)
(*                                                                         *)
(*   - src/src/experiments/sim.py  run(): the per-step loop over the grid  *)
(*     plant (src/src/ca), the PID controller, the actuator and the        *)
(*     turbulence process, followed by analysis/metrics.py                 *)
(*     metrics_from_log(), as scripts/run_demo.py chains them;             *)
(*   - src/scripts/run_thesis_sweep.py  run_episode(): the sweep's own     *)
(*     toy episode and its metrics.                                        *)
(*                                                                         *)
(* Numbers.  The program computes in IEEE doubles.  The model computes in  *)
(* fixed point: every real quantity x is held as the integer 1000 * x      *)
(* ("milli-units"), and a product of two such quantities is brought back   *)
(* to milli-units with Milli(), which rounds toward zero.                  *)
(*                                                                         *)
(* Random streams.  np.random.default_rng(seed) is a deterministic stream: *)
(* the k-th draw is a function of (seed, k).  The model keeps, for each    *)
(* generator, its seed and the number of draws made so far, and reads the  *)
(* k-th standard normal draw as NormalZ(seed, k), a three-valued stand-in  *)
(* (-1, 0, +1 standard deviations); a uniform draw is UniformU(seed, k).   *)
(* The module-level generator behind np.random.normal is one generator     *)
(* shared by the whole process; its seed comes from the operating system.  *)
(***************************************************************************)
EXTENDS Integers, Sequences, FiniteSets, TLC

(***************************************************************************)
(* Bounds of the model.                                                    *)
(***************************************************************************)
MaxT == 3
MaxSeed == 1
MaxGlobalSeed == 1
GridH == 2
GridW == 2
SweepMaxT == 3
MaxLen == 10
MaxFree == 3
MaxCalls == 24
MaxTurbCalls == 5
MaxFiles == 3
MaxGrid == 3

(***************************************************************************)
(* Fixed-point helpers.                                                    *)
(***************************************************************************)
Abs(x) == IF x < 0 THEN -x ELSE x

Max2(x, y) == IF x >= y THEN x ELSE y

\* x / d for integers, rounded toward zero (d > 0)
DivZ(x, d) == IF x >= 0 THEN x \div d ELSE -((-x) \div d)

\* a product of two milli-unit quantities, back in milli-units
Milli(x) == DivZ(x, 1000)

\* np.clip(x, lo, hi)
Clip(x, lo, hi) == IF x < lo THEN lo ELSE IF x > hi THEN hi ELSE x

RECURSIVE SeqSum(_)
SeqSum(q) == IF q = <<>> THEN 0 ELSE Head(q) + SeqSum(Tail(q))

RECURSIVE SeqMax(_)
\* max of a non-empty sequence
SeqMax(q) == IF Len(q) = 1 THEN q[1] ELSE Max2(Head(q), SeqMax(Tail(q)))

AbsSeq(q) == [k \in 1..Len(q) |-> Abs(q[k])]

(***************************************************************************)
(* Random streams.                                                         *)
(***************************************************************************)
Raw(seed, k) == ((seed + 1) * 37 + k * 11 + k * k * 5 + seed * k * 3) % 7

\* the k-th standard normal draw of the stream seeded with seed, in
\* standard deviations
NormalZ(seed, k) == (Raw(seed, k) % 3) - 1

\* the k-th uniform [0, 1) draw of the stream, in milli-units
UniformU(seed, k) == CASE Raw(seed, k) % 3 = 0 -> 0
                       [] Raw(seed, k) % 3 = 1 -> 500
                       [] OTHER -> 999

(***************************************************************************)
(* src/src/ca/grid.py : CAState                                            *)
(***************************************************************************)
Cells(h, w) == (0..(h - 1)) \X (0..(w - 1))

\* position of cell c in a row-major array of width w
Flat(c, w) == c[1] * w + c[2]

\* CAState.__init__: three arrays drawn in order from default_rng(seed)
InitState(h, w, seed) ==
    [h |-> h, w |-> w,
     a |-> [c \in Cells(h, w) |-> 30 * NormalZ(seed, Flat(c, w))],
     s |-> [c \in Cells(h, w) |->
              600 + Milli(300 * UniformU(seed, h * w + Flat(c, w)))],
     v |-> [c \in Cells(h, w) |->
              1000 + 20 * NormalZ(seed, 2 * h * w + Flat(c, w))]]

RECURSIVE FieldSum(_, _)
FieldSum(x, cs) ==
    IF cs = {} THEN 0
    ELSE LET c == CHOOSE d \in cs : TRUE IN x[c] + FieldSum(x, cs \ {c})

\* ndarray.mean()
FieldMean(x, h, w) == DivZ(FieldSum(x, Cells(h, w)), h * w)

mean_attitude(st) == FieldMean(st.a, st.h, st.w)

mean_stability(st) == FieldMean(st.s, st.h, st.w)

mean_speed(st) == FieldMean(st.v, st.h, st.w)

\* the offsets of CAState._neigh
Offsets == { d \in {-1, 0, 1} \X {-1, 0, 1} : d # <<0, 0>> }

\* CAState.neighbors(i, j): the cells the generator yields, those of the
\* eight that lie inside the grid
neighbors(h, w, c) ==
    { n \in Cells(h, w) : \E d \in Offsets : n = <<c[1] + d[1], c[2] + d[2]>> }

(***************************************************************************)
(* src/src/ca/update.py                                                    *)
(***************************************************************************)
\* the eight non-zero entries of the kernel NEIGH, as offsets
NEIGH == << <<-1, -1>>, <<-1, 0>>, <<-1, 1>>, <<0, -1>>,
            <<0, 1>>, <<1, -1>>, <<1, 0>>, <<1, 1>> >>

\* boundary='symm': index -1 reads index 0, index n reads index n - 1
Reflect(k, n) == IF k < 0 THEN -k - 1 ELSE IF k >= n THEN 2 * n - 1 - k ELSE k

\* _neighbor_mean at one cell: convolution sum s over the kernel, divided by
\* the convolution c of the all-ones array (8 at every cell under 'symm')
NeighborMeanAt(x, h, w, c) ==
    LET s == SeqSum([k \in 1..8 |->
                 x[<<Reflect(c[1] + NEIGH[k][1], h),
                     Reflect(c[2] + NEIGH[k][2], w)>>]])
        cnt == SeqSum([k \in 1..8 |-> 1])
    IN  DivZ(s, Max2(cnt, 1))

_neighbor_mean(x, h, w) == [c \in Cells(h, w) |-> NeighborMeanAt(x, h, w, c)]

\* the stability line of step_ca without its np.clip
StabilityUpdateNoClip(s, ls, ctrl_bias, turb) ==
    LET s_decay == 3 + Milli(30 * turb)
        s_recover == 12 + Milli(15 * Max2(0, 1000 - Abs(ctrl_bias)))
    IN  Milli((1000 - s_decay) * s) + Milli(50 * ls) + s_recover

\* step_ca, stability of one cell: decay, recovery, clip to [0, 1]
StabilityUpdate(s, ls, ctrl_bias, turb) ==
    LET s_decay == 3 + Milli(30 * turb)
        s_recover == 12 + Milli(15 * Max2(0, 1000 - Abs(ctrl_bias)))
        s_new == Milli((1000 - s_decay) * s) + Milli(50 * ls) + s_recover
    IN  Clip(s_new, 0, 1000)

\* step_ca, attitude of one cell; z is the cell's standard normal draw
AttitudeUpdate(a, la, ls, ctrl_bias, turb, z) ==
    LET responsiveness == 250 + Milli(750 * ls)
        std == 20 + Milli(150 * turb)
    IN  Milli(600 * a) + Milli(350 * la) + Milli(responsiveness * ctrl_bias)
          + std * z

\* step_ca, speed of one cell
SpeedUpdate(v, lv, ls) == Milli(900 * v) + Milli(100 * lv) + Milli(10 * (ls - 500))

\* step_ca: the new plant state; the attitude noise is drawn from the
\* generator (gseed, gpos), one draw per cell in row-major order
step_ca(st, ctrl_bias, turb, gseed, gpos) ==
    LET la == _neighbor_mean(st.a, st.h, st.w)
        ls == _neighbor_mean(st.s, st.h, st.w)
        lv == _neighbor_mean(st.v, st.h, st.w)
    IN  [st EXCEPT
           !.a = [c \in Cells(st.h, st.w) |->
                    AttitudeUpdate(st.a[c], la[c], ls[c], ctrl_bias, turb,
                                   NormalZ(gseed, gpos + Flat(c, st.w)))],
           !.s = [c \in Cells(st.h, st.w) |->
                    StabilityUpdate(st.s[c], ls[c], ctrl_bias, turb)],
           !.v = [c \in Cells(st.h, st.w) |->
                    SpeedUpdate(st.v[c], lv[c], ls[c])]]

\* crash_condition with its default thresholds a_thresh = 6.0, s_thresh = 0.18
crash_condition(st) ==
    Abs(mean_attitude(st)) > 6000 \/ mean_stability(st) < 180


(***************************************************************************)
(* src/src/control/pid.py : PID                                            *)
(***************************************************************************)
\* PID.__init__ with the defaults sim.run leaves alone (antiwindup = 0.95)
NewPID(kp, ki, kd, umin, umax) ==
    [kp |-> kp, ki |-> ki, kd |-> kd, umin |-> umin, umax |-> umax,
     i |-> 0, prev_e |-> 0, antiwindup |-> 950]

\* line 12 of PID.step: the output before the clamp, computed from the
\* accumulator after line 9 and the derivative of line 10
PIDRaw(p, e) == Milli(p.kp * e) + Milli(p.ki * (p.i + e)) + Milli(p.kd * (e - p.prev_e))

\* PID.step that leaves the accumulator alone when it clamps
PIDStepNoAntiwindup(p, e) ==
    LET i1 == p.i + e
        u == PIDRaw(p, e)
    IN  [pid |-> [p EXCEPT !.i = i1, !.prev_e = e], u |-> Clip(u, p.umin, p.umax)]

\* PID.step without its elif branch: no clamp at umin
PIDStepUpperClampOnly(p, e) ==
    LET i1 == p.i + e
        u == PIDRaw(p, e)
    IN  IF u > p.umax
        THEN [pid |-> [p EXCEPT !.i = Milli(i1 * p.antiwindup), !.prev_e = e],
              u |-> p.umax]
        ELSE [pid |-> [p EXCEPT !.i = i1, !.prev_e = e], u |-> u]

\* PID.step(e) with dt = 1.0: the controller after the call and the value
\* returned
PIDStep(p, e) ==
    LET i1 == p.i + e
        d == e - p.prev_e
        u == Milli(p.kp * e) + Milli(p.ki * i1) + Milli(p.kd * d)
    IN  IF u > p.umax
        THEN [pid |-> [p EXCEPT !.i = Milli(i1 * p.antiwindup), !.prev_e = e],
              u |-> p.umax]
        ELSE IF u < p.umin
        THEN [pid |-> [p EXCEPT !.i = Milli(i1 * p.antiwindup), !.prev_e = e],
              u |-> p.umin]
        ELSE [pid |-> [p EXCEPT !.i = i1, !.prev_e = e], u |-> u]

(***************************************************************************)
(* src/src/dynamics/actuator.py : FirstOrderActuator                       *)
(***************************************************************************)
NewActuator(tau, umax, rate) == [tau |-> tau, umax |-> umax, rate |-> rate, u |-> 0]

\* FirstOrderActuator.step(u_cmd) with dt = 1.0: the actuator after the
\* call and the value returned.  max(tau, 1e-6) is max(tau, 1) here: the
\* smallest positive milli-unit.
ActStep(ac, u_cmd) ==
    LET cmd == Clip(u_cmd, -ac.umax, ac.umax)
        du == Clip(cmd - ac.u, -ac.rate, ac.rate)
        u1 == ac.u + du
        u2 == u1 + DivZ((cmd - u1) * 1000, Max2(ac.tau, 1))
    IN  [act |-> [ac EXCEPT !.u = u2], out |-> Clip(u2, -ac.umax, ac.umax)]

(***************************************************************************)
(* src/src/dynamics/noise.py : Turbulence                                  *)
(***************************************************************************)
\* Turbulence.__init__ (dt = 1.0): its own generator default_rng(seed)
NewTurbulence(theta, sigma, seed) ==
    [theta |-> theta, sigma |-> sigma, seed |-> seed, pos |-> 0, x |-> 0]

\* Turbulence.step that returns at once when level is 0
TurbStepSkipCalm(tb, level) ==
    LET dw == 1000 * NormalZ(tb.seed, tb.pos)
        x1 == tb.x + Milli(tb.theta * (0 - tb.x))
                   + Milli(Milli(tb.sigma * dw) * level)
    IN  IF level = 0 THEN tb ELSE [tb EXCEPT !.x = x1, !.pos = tb.pos + 1]

\* Turbulence.step(level): one draw dw ~ N(0, sqrt(dt)), then the update
TurbStep(tb, level) ==
    LET dw == 1000 * NormalZ(tb.seed, tb.pos)
        x1 == tb.x + Milli(tb.theta * (0 - tb.x))
                   + Milli(Milli(tb.sigma * dw) * level)
    IN  [tb EXCEPT !.x = x1, !.pos = tb.pos + 1]

(***************************************************************************)
(* src/src/experiments/scenarios.py                                        *)
(***************************************************************************)
\* the closure turbulence_schedule_factory returns, applied to t
schedule(sch, tt) ==
    IF tt < sch.t1 THEN sch.low ELSE IF tt < sch.t2 THEN sch.mid ELSE sch.late

(***************************************************************************)
(* src/src/analysis/metrics.py : metrics_from_log, on a non-empty log      *)
(***************************************************************************)
attitude_err(lg) == [k \in 1..Len(lg.t) |-> lg.attitude[k] - lg.a_ref[k]]

RECURSIVE FirstBelow(_, _, _)
\* next((t for t, e in zip(ts, errs) if e < 0.05), default), from index k
FirstBelow(ts, errs, k) ==
    IF k > Len(ts) THEN ts[Len(ts)]
    ELSE IF errs[k] < 50 THEN ts[k]
    ELSE FirstBelow(ts, errs, k + 1)

\* np.var: the mean squared deviation from the mean (in milli-units squared)
Variance(q) ==
    LET m == DivZ(SeqSum(q), Len(q))
    IN  DivZ(SeqSum([k \in 1..Len(q) |-> (q[k] - m) * (q[k] - m)]), Len(q))

\* crash = any(crashed) taken over every record instead
CrashAllRecords(lg) == \A k \in 1..Len(lg.crashed) : lg.crashed[k]

\* bool(df['crashed'].any())
CrashAny(lg) == \E k \in 1..Len(lg.crashed) : lg.crashed[k]

metrics_from_log(lg) ==
    [overshoot |-> SeqMax(AbsSeq(attitude_err(lg))),
     time_to_recover |-> FirstBelow(lg.t, AbsSeq(attitude_err(lg)), 1),
     stability_variance |-> Variance(lg.stability),
     control_effort |-> SeqSum(AbsSeq(lg.u_eff)),
     crash |-> CrashAny(lg)]


(***************************************************************************)
(* src/scripts/run_thesis_sweep.py : factors and knobs                     *)
(***************************************************************************)
CONTROLLERS == {"PID", "LQR", "MPC"}

GRIDS == {"30x30", "40x40"}

TURBULENCE == {"low", "high"}

FAILURE == {"none", "sensor_bias", "actuator_sat"}

\* STRESS["turbulence"]
StressTurbulence(tb) ==
    IF tb = "low" THEN [sigma |-> 20, tau |-> 300] ELSE [sigma |-> 60, tau |-> 150]

\* STRESS["failures"]
SensorBiasMag == 40
SatLimit == 750

\* STRESS["recovery"]
RecThreshold == 30
RecHysteresis == 15
RecMinHold == 8

CTRL_PROFILE(c) ==
    CASE c = "PID" -> [base_overshoot |-> 20, effort |-> 1000]
      [] c = "LQR" -> [base_overshoot |-> 15, effort |-> 1150]
      [] c = "MPC" -> [base_overshoot |-> 10, effort |-> 1300]

GRID_FACTOR(g) == IF g = "30x30" THEN 1000 ELSE 950

\* math.exp(-1.0 / tau) at the two values of tau in STRESS, in milli-units
ExpNegInv(tau) == IF tau = 300 THEN 36 ELSE 1

RECURSIVE OuFrom(_, _, _, _, _)
\* ou_process: x[0] = 0, x[t] = alpha * x[t-1] + sigma * rng.normal();
\* the series from the entries x so far, the draws starting at stream
\* position Len(x) - 1
OuFrom(x, seed, T, sigma, alpha) ==
    IF Len(x) >= T THEN x
    ELSE OuFrom(Append(x, Milli(alpha * x[Len(x)]) + sigma * NormalZ(seed, Len(x) - 1)),
                seed, T, sigma, alpha)

ou_process(seed, T, sigma, tau) ==
    IF T = 0 THEN <<>> ELSE OuFrom(<<0>>, seed, T, sigma, ExpNegInv(Max2(tau, 1)))

\* lines 114-118: the command of step t from the measured error and the
\* previous measured error
ControlCmd(e_meas, e_prev, k_p, k_d, sat_on, sat) ==
    LET u_t == -Milli(k_p * e_meas) - Milli(k_d * (e_meas - e_prev))
    IN  IF sat_on THEN Clip(u_t, -sat, sat) ELSE u_t

\* lines 121-122: the next error; z is the step's standard normal draw
NextError(prev, noise_t, e_meas, u_t, z) ==
    Milli(850 * prev) + Milli(50 * noise_t) + Milli(150 * e_meas) + 70 * z
      + (-Milli(100 * u_t))

(***************************************************************************)
(* run_episode, lines 130-142: recovery detection                          *)
(***************************************************************************)
\* window_ok with the bound test written t + min_hold < len(error)
WindowOkStrict(error, tt) ==
    /\ tt + RecMinHold < Len(error)
    /\ \A k \in (tt + 1)..(tt + RecMinHold) : Abs(error[k]) < RecHysteresis

\* window_ok at (0-based) index tt: the slice error[tt : tt + min_hold] is
\* entries tt+1 .. tt+min_hold of the (1-based) sequence
WindowOk(error, tt) ==
    /\ tt + RecMinHold <= Len(error)
    /\ \A k \in (tt + 1)..(tt + RecMinHold) : Abs(error[k]) < RecHysteresis

RECURSIVE RecoveryScan(_, _)
\* for t in range(len(error)): the first t whose window is ok, else 0.0
RecoveryScan(error, tt) ==
    IF tt >= Len(error) THEN 0
    ELSE IF WindowOk(error, tt) THEN tt
    ELSE RecoveryScan(error, tt + 1)

Crossed(error) == \E k \in 1..Len(error) : Abs(error[k]) > RecThreshold

TimeToRecover(error) == IF Crossed(error) THEN RecoveryScan(error, 0) ELSE 0

(***************************************************************************)
(* run_episode, lines 126-128 and 144-145: the other metrics (T >= 1)      *)
(***************************************************************************)
Overshoot(error) == Max2(0, SeqMax(error))

ControlEffort(u) == DivZ(SeqSum(AbsSeq(u)), Len(u))

\* np.abs(error).mean() > 0.25 and (sat is not None or np.abs(u).max() > 1.2)
CrashProxy(error, u, sat_on) ==
    IF /\ SeqSum(AbsSeq(error)) > 250 * Len(error)
       /\ (sat_on \/ SeqMax(AbsSeq(u)) > 1200)
    THEN 1000 ELSE 0

(***************************************************************************)
(* State.                                                                  *)
(*                                                                         *)
(* Episodes of sim.run, by episode number: cfg (the arguments), pc, t (the *)
(* loop index), state (CAState), pid, act, turb, log (nine columns) and    *)
(* metrics (what metrics_from_log returned).  np_random is the process's   *)
(* module-level numpy generator, shared by every episode of the process.   *)
(*                                                                         *)
(* pc: "off" (no such episode), "loop" (constructed, in or before the      *)
(* for loop), "returned" (run returned its log), "done" (metrics_from_log  *)
(* returned), "raised" (metrics_from_log raised).                          *)
(*                                                                         *)
(* sw is the one run_episode call of the sweep script, and rec the         *)
(* recovery detection of run_episode applied to a given error series (see  *)
(* below).  comp is one component (PID, Turbulence, the neighbour mean)    *)
(* driven on its own by a caller, and pipe the upload wrapper              *)
(* scripts/run_sweep_and_upload.py.                                        *)
(***************************************************************************)
VARIABLES cfg, pc, t, state, pid, act, turb, log, metrics, np_random, sw, rec,
          comp, pipe

simVars == <<cfg, pc, t, state, pid, act, turb, log, metrics, np_random>>

vars == <<cfg, pc, t, state, pid, act, turb, log, metrics, np_random, sw, rec,
          comp, pipe>>

Episodes == {1, 2}

\* failure_window = None
None == <<>>

(***************************************************************************)
(* Arguments of sim.run the model ranges over.  Gains are those of         *)
(* scripts/run_demo.py (baseline and ga_candidate); the schedule is        *)
(* turbulence_schedule_factory(low = 0, mid, late = 0.1, t1, t2 = t1 + 1): *)
(* calm, one step at level mid at t = t1, then late.  mid = 0.35 is        *)
(* run_demo's; mid = 40 is a storm that collapses stability in one step.   *)
(***************************************************************************)
Gains == { [kp |-> 800, ki |-> 50, kd |-> 120], [kp |-> 150, ki |-> 10, kd |-> 6] }

Schedules ==
    { [low |-> 0, mid |-> m, late |-> 100, t1 |-> k, t2 |-> k + 1] :
        m \in {350, 40000}, k \in 0..MaxT }

SimConfigs ==
    { [T |-> T, seed |-> sd, kp |-> g.kp, ki |-> g.ki, kd |-> g.kd,
       a_ref |-> r, pitch_up_at |-> 1, pitch_up_delta |-> 300,
       failure_window |-> fw, turb_sched |-> sch,
       grid_h |-> GridH, grid_w |-> GridW] :
        T \in 0..MaxT, sd \in 0..MaxSeed, g \in Gains, r \in {0, 3000},
        fw \in {None, <<1, 2>>}, sch \in Schedules }

\* the configurations run for the two-episode specification
PairConfigs ==
    { c \in SimConfigs : /\ c.kp = 800
                         /\ c.a_ref = 0
                         /\ c.failure_window = None
                         /\ c.turb_sched.mid = 350
                         /\ c.turb_sched.t1 = 0 }

EmptyLog ==
    [t |-> <<>>, attitude |-> <<>>, stability |-> <<>>, speed |-> <<>>,
     u_cmd |-> <<>>, u_eff |-> <<>>, turb |-> <<>>, crashed |-> <<>>,
     a_ref |-> <<>>]

NoMetrics ==
    [overshoot |-> 0, time_to_recover |-> 0, stability_variance |-> 0,
     control_effort |-> 0, crash |-> FALSE]

\* sim.run up to its for loop: the four components and the empty log
Constructed(c) ==
    [state |-> InitState(c.grid_h, c.grid_w, c.seed),
     pid |-> NewPID(c.kp, c.ki, c.kd, -2000, 2000),
     act |-> NewActuator(300, 2000, 500),
     turb |-> NewTurbulence(300, 200, c.seed),
     log |-> EmptyLog]


\* the arguments of run_episode the model ranges over: the sweep's factors,
\* one controller name and one failure token outside them, T from -1
SweepConfigs ==
    [controller : CONTROLLERS \cup {"FUZZY"}, grid : GRIDS,
     turbulence : TURBULENCE, failure : FAILURE \cup {"gps_loss"},
     T : (-1)..SweepMaxT, seed : 0..MaxSeed]

NoRow ==
    [controller |-> "", grid |-> "", turbulence |-> "", failure |-> "",
     seed |-> 0, overshoot |-> 0, time_to_recover |-> 0, crash |-> 0,
     control_effort |-> 0]

SweepCall(c) ==
    [pc |-> "start", cfg |-> c, exc |-> "", at |-> 0, rng_pos |-> 0,
     noise |-> <<>>, error |-> <<>>, u |-> <<>>, bias |-> 0,
     sat_on |-> FALSE, sat |-> 0, k_p |-> 0, k_d |-> 0, e_prev |-> 0,
     t |-> 0, row |-> NoRow]

SweepOff == [SweepCall(CHOOSE c \in SweepConfigs : TRUE) EXCEPT !.pc = "off"]

RecOff == [pc |-> "off", error |-> <<>>, time_to_recover |-> 0]

\* no component is being driven on its own
CompOff == [pc |-> "off"]

\* the upload wrapper is not running
PipeOff == [pc |-> "off"]

\* episodes chosen by cs, a function from the running episodes to configs;
\* the process's generator was seeded with one of gseeds
InitEpisodes(cs, gseeds) ==
    /\ cfg = [ep \in Episodes |->
                IF ep \in DOMAIN cs THEN cs[ep] ELSE CHOOSE c \in SimConfigs : TRUE]
    /\ pc = [ep \in Episodes |-> IF ep \in DOMAIN cs THEN "loop" ELSE "off"]
    /\ t = [ep \in Episodes |-> 0]
    /\ state = [ep \in Episodes |-> Constructed(cfg[ep]).state]
    /\ pid = [ep \in Episodes |-> Constructed(cfg[ep]).pid]
    /\ act = [ep \in Episodes |-> Constructed(cfg[ep]).act]
    /\ turb = [ep \in Episodes |-> Constructed(cfg[ep]).turb]
    /\ log = [ep \in Episodes |-> EmptyLog]
    /\ metrics = [ep \in Episodes |-> NoMetrics]
    /\ \E g \in gseeds : np_random = [seed |-> g, pos |-> 0]

\* one episode in the process
InitSim ==
    /\ \E c \in SimConfigs : InitEpisodes(1 :> c, 0..MaxGlobalSeed)
    /\ sw = SweepOff
    /\ rec = RecOff
    /\ comp = CompOff
    /\ pipe = PipeOff

\* two episodes in the process
InitPair ==
    /\ \E c1 \in PairConfigs, c2 \in PairConfigs : InitEpisodes(1 :> c1 @@ 2 :> c2, 0..MaxGlobalSeed)
    /\ sw = SweepOff
    /\ rec = RecOff
    /\ comp = CompOff
    /\ pipe = PipeOff

(***************************************************************************)
(* src/src/experiments/sim.py : run, one iteration of its for loop         *)
(***************************************************************************)
InWindow(fw, tt) == fw # None /\ fw[1] <= tt /\ tt < fw[2]

\* the iteration without line 29: ki and kd are not put back after the
\* faulty step
IterationNoRestore(c, tt, st, p, ac, tb, g) ==
    LET ref == c.a_ref + (IF tt = c.pitch_up_at THEN c.pitch_up_delta ELSE 0)
        e == ref - mean_attitude(st)
        faulty == InWindow(c.failure_window, tt)
        r == IF faulty THEN PIDStep([p EXCEPT !.ki = 0, !.kd = 0], e)
                       ELSE PIDStep(p, e)
        ar == ActStep(ac, r.u)
        level == schedule(c.turb_sched, tt)
        tb1 == TurbStep(tb, level)
        st1 == step_ca(st, ar.out + tb1.x, level, g.seed, g.pos)
    IN  [state |-> st1, pid |-> r.pid, act |-> ar.act, turb |-> tb1,
         np_random |-> [g EXCEPT !.pos = g.pos + st.h * st.w],
         ref |-> ref, u_cmd |-> r.u, u_eff |-> ar.out, level |-> level,
         crashed |-> crash_condition(st1)]

\* lines 23-40 as a function of the episode's state: what the iteration
\* leaves behind
Iteration(c, tt, st, p, ac, tb, g) ==
    LET ref == c.a_ref + (IF tt = c.pitch_up_at THEN c.pitch_up_delta ELSE 0)
        e == ref - mean_attitude(st)
        faulty == InWindow(c.failure_window, tt)
        r == IF faulty THEN PIDStep([p EXCEPT !.ki = 0, !.kd = 0], e)
                       ELSE PIDStep(p, e)
        p1 == IF faulty THEN [r.pid EXCEPT !.ki = p.ki, !.kd = p.kd] ELSE r.pid
        ar == ActStep(ac, r.u)
        level == schedule(c.turb_sched, tt)
        tb1 == TurbStep(tb, level)
        st1 == step_ca(st, ar.out + tb1.x, level, g.seed, g.pos)
    IN  [state |-> st1, pid |-> p1, act |-> ar.act, turb |-> tb1,
         np_random |-> [g EXCEPT !.pos = g.pos + st.h * st.w],
         ref |-> ref, u_cmd |-> r.u, u_eff |-> ar.out, level |-> level,
         crashed |-> crash_condition(st1)]

\* lines 37-40 without log['turb'].append(level)
AppendedNoTurb(lg, tt, it) ==
    [t |-> Append(lg.t, tt),
     attitude |-> Append(lg.attitude, mean_attitude(it.state)),
     stability |-> Append(lg.stability, mean_stability(it.state)),
     speed |-> Append(lg.speed, mean_speed(it.state)),
     u_cmd |-> Append(lg.u_cmd, it.u_cmd),
     u_eff |-> Append(lg.u_eff, it.u_eff),
     turb |-> lg.turb,
     crashed |-> Append(lg.crashed, it.crashed),
     a_ref |-> Append(lg.a_ref, it.ref)]

\* lines 37-40: one record appended to each of the nine columns
Appended(lg, tt, it) ==
    [t |-> Append(lg.t, tt),
     attitude |-> Append(lg.attitude, mean_attitude(it.state)),
     stability |-> Append(lg.stability, mean_stability(it.state)),
     speed |-> Append(lg.speed, mean_speed(it.state)),
     u_cmd |-> Append(lg.u_cmd, it.u_cmd),
     u_eff |-> Append(lg.u_eff, it.u_eff),
     turb |-> Append(lg.turb, it.level),
     crashed |-> Append(lg.crashed, it.crashed),
     a_ref |-> Append(lg.a_ref, it.ref)]

\* one pass through the loop body; `if crashed: break` leads to the return
Step(ep) ==
    /\ pc[ep] = "loop"
    /\ t[ep] < cfg[ep].T
    /\ LET it == Iteration(cfg[ep], t[ep], state[ep], pid[ep], act[ep],
                           turb[ep], np_random)
       IN  /\ state' = [state EXCEPT ![ep] = it.state]
           /\ pid' = [pid EXCEPT ![ep] = it.pid]
           /\ act' = [act EXCEPT ![ep] = it.act]
           /\ turb' = [turb EXCEPT ![ep] = it.turb]
           /\ np_random' = it.np_random
           /\ log' = [log EXCEPT ![ep] = Appended(log[ep], t[ep], it)]
           /\ IF it.crashed
              THEN /\ pc' = [pc EXCEPT ![ep] = "returned"]
                   /\ t' = t
              ELSE /\ pc' = pc
                   /\ t' = [t EXCEPT ![ep] = t[ep] + 1]
    /\ UNCHANGED <<cfg, metrics, sw, rec, comp, pipe>>

\* range(T) is exhausted: return log
Return(ep) ==
    /\ pc[ep] = "loop"
    /\ t[ep] >= cfg[ep].T
    /\ pc' = [pc EXCEPT ![ep] = "returned"]
    /\ UNCHANGED <<cfg, t, state, pid, act, turb, log, metrics, np_random, sw, rec, comp, pipe>>

\* metrics_from_log(log) on the returned log, as run_demo.py calls it.  On
\* the empty log df['t'].iloc[-1], the eagerly evaluated default of
\* next(), raises IndexError.
Metrics(ep) ==
    /\ pc[ep] = "returned"
    /\ IF Len(log[ep].t) = 0
       THEN /\ pc' = [pc EXCEPT ![ep] = "raised"]
            /\ metrics' = metrics
       ELSE /\ pc' = [pc EXCEPT ![ep] = "done"]
            /\ metrics' = [metrics EXCEPT ![ep] = metrics_from_log(log[ep])]
    /\ UNCHANGED <<cfg, t, state, pid, act, turb, log, np_random, sw, rec, comp, pipe>>

\* sim.run as a function: the log returned by the loop entered at step tt
\* with the given components, log so far and process generator
RECURSIVE RunFrom(_, _, _, _, _, _, _, _)
RunFrom(c, tt, st, p, ac, tb, g, lg) ==
    IF tt >= c.T THEN lg
    ELSE LET it == Iteration(c, tt, st, p, ac, tb, g)
             lg1 == Appended(lg, tt, it)
         IN  IF it.crashed THEN lg1
             ELSE RunFrom(c, tt + 1, it.state, it.pid, it.act, it.turb,
                          it.np_random, lg1)

\* run(**c) executed alone, from its first line to its return, in a process
\* whose module-level generator was seeded with gseed
run(c, gseed) ==
    RunFrom(c, 0, Constructed(c).state, Constructed(c).pid, Constructed(c).act,
            Constructed(c).turb, [seed |-> gseed, pos |-> 0], EmptyLog)

NextSim == \E ep \in Episodes : Step(ep) \/ Return(ep) \/ Metrics(ep)

PairSpec == InitPair /\ [][NextSim]_vars


(***************************************************************************)
(* src/scripts/run_thesis_sweep.py : run_episode                           *)
(*                                                                         *)
(* sw.pc: "off" (no call), "start" (called with sw.cfg), "loop" (set up,   *)
(* in or before the simulation loop), "returned" (the metrics row sw.row   *)
(* was returned), "raised" (an exception left the call; sw.exc names it    *)
(* and sw.at is the line that raised).                                     *)
(***************************************************************************)
InitSweep ==
    /\ InitEpisodes(<<>>, {0})
    /\ \E c \in SweepConfigs : sw = SweepCall(c)
    /\ rec = RecOff
    /\ comp = CompOff
    /\ pipe = PipeOff

Raised(exc, line) == [sw EXCEPT !.pc = "raised", !.exc = exc, !.at = line]

\* lines 81-111: the lookups, the disturbance series, the failure
\* modifiers and the gains.  A dictionary lookup of an unknown key raises
\* KeyError; np.zeros(T) with T < 0 raises ValueError.
SweepSetup ==
    /\ sw.pc = "start"
    /\ LET c == sw.cfg IN
       sw' =
         IF c.controller \notin CONTROLLERS THEN Raised("KeyError", 84)
         ELSE IF c.grid \notin GRIDS THEN Raised("KeyError", 85)
         ELSE IF c.turbulence \notin TURBULENCE THEN Raised("KeyError", 89)
         ELSE IF c.T < 0 THEN Raised("ValueError", 73)
         ELSE
           LET prof == CTRL_PROFILE(c.controller)
               base_effort == DivZ(prof.effort * 1000, GRID_FACTOR(c.grid))
               st == StressTurbulence(c.turbulence)
               ndraws == Max2(c.T - 1, 0)
               biased == c.failure = "sensor_bias"
           IN  [sw EXCEPT
                  !.pc = "loop",
                  !.noise = ou_process(c.seed, c.T, st.sigma, st.tau),
                  !.bias = IF biased
                           THEN (IF UniformU(c.seed, ndraws) < 500
                                 THEN SensorBiasMag ELSE -SensorBiasMag)
                           ELSE 0,
                  !.rng_pos = IF biased THEN ndraws + 1 ELSE ndraws,
                  !.sat_on = (c.failure = "actuator_sat"),
                  !.sat = IF c.failure = "actuator_sat" THEN SatLimit ELSE 0,
                  !.k_p = Milli(2200 * base_effort),
                  !.k_d = Milli(500 * base_effort)]
    /\ UNCHANGED <<simVars, rec, comp, pipe>>

\* lines 113-124: one iteration of the simulation loop
SweepStep ==
    /\ sw.pc = "loop"
    /\ sw.t < sw.cfg.T
    /\ LET prev == IF sw.t > 0 THEN sw.error[sw.t] ELSE 1000
           e_meas == prev + sw.bias
           u_t == ControlCmd(e_meas, sw.e_prev, sw.k_p, sw.k_d, sw.sat_on, sw.sat)
           e_next == NextError(prev, sw.noise[sw.t + 1], e_meas, u_t,
                               NormalZ(sw.cfg.seed, sw.rng_pos))
       IN  sw' = [sw EXCEPT !.u = Append(sw.u, u_t),
                            !.error = Append(sw.error, e_next),
                            !.e_prev = e_meas,
                            !.rng_pos = sw.rng_pos + 1,
                            !.t = sw.t + 1]
    /\ UNCHANGED <<simVars, rec, comp, pipe>>

\* lines 126-157: the metrics and the returned row.  With T = 0,
\* error.max() of the empty array raises ValueError.
SweepMetrics ==
    /\ sw.pc = "loop"
    /\ sw.t >= sw.cfg.T
    /\ sw' =
         IF Len(sw.error) = 0 THEN Raised("ValueError", 127)
         ELSE [sw EXCEPT
                 !.pc = "returned",
                 !.row = [controller |-> sw.cfg.controller,
                          grid |-> sw.cfg.grid,
                          turbulence |-> sw.cfg.turbulence,
                          failure |-> sw.cfg.failure,
                          seed |-> sw.cfg.seed,
                          overshoot |-> Overshoot(sw.error),
                          time_to_recover |-> TimeToRecover(sw.error),
                          crash |-> CrashProxy(sw.error, sw.u, sw.sat_on),
                          control_effort |-> ControlEffort(sw.u)]]
    /\ UNCHANGED <<simVars, rec, comp, pipe>>

NextSweep == SweepSetup \/ SweepStep \/ SweepMetrics

(***************************************************************************)
(* The process: either the demo pipeline (one sim.run episode, then        *)
(* metrics_from_log) or one run_episode call of the sweep.                 *)
(***************************************************************************)
Init == InitSim \/ InitSweep

Next == NextSim \/ NextSweep

Spec == Init /\ [][Next]_vars

(***************************************************************************)
(* Recovery detection on a given error series.  error[t] is a sum with a   *)
(* Gaussian term (0.07 * rng.normal()), so every finite series of reals is *)
(* a value the array can hold when line 130 is reached.  The series range  *)
(* over three magnitudes: inside the hysteresis band (0.014), on its edge  *)
(* (0.015, not inside: the test is strict) and beyond the trigger (-0.031).*)
(***************************************************************************)
RecErrVals == {14, 15, -31}

RecSeries == UNION { [1..n -> RecErrVals] : n \in 1..MaxLen }

InitRecovery ==
    /\ InitEpisodes(<<>>, {0})
    /\ sw = SweepOff
    /\ \E e \in RecSeries : rec = [pc |-> "start", error |-> e, time_to_recover |-> 0]
    /\ comp = CompOff
    /\ pipe = PipeOff

RecoveryDetect ==
    /\ rec.pc = "start"
    /\ rec' = [rec EXCEPT !.pc = "done", !.time_to_recover = TimeToRecover(rec.error)]
    /\ UNCHANGED <<simVars, sw, comp, pipe>>

RecoverySpec == InitRecovery /\ [][RecoveryDetect]_vars

(***************************************************************************)
(* The PID controller driven on its own: PID(kp, ki, kd, umin = -2.0,      *)
(* umax = 2.0) as sim.run constructs it, then a sequence of step(e) calls. *)
(* Any sequence of errors is followed for MaxFree calls; a constant error  *)
(* under which every call so far has clamped is followed for MaxCalls      *)
(* calls.  comp keeps the controller before the last call (before), the    *)
(* error passed (e) and the value returned (u); steady says that every     *)
(* call so far had the same error and clamped.                             *)
(***************************************************************************)
PIDErrs == {-3000, -100, 100, 3000}

InitPID ==
    /\ InitEpisodes(<<>>, {0})
    /\ sw = SweepOff
    /\ rec = RecOff
    /\ pipe = PipeOff
    /\ \E g \in Gains :
         comp = [pc |-> "pid", pid |-> NewPID(g.kp, g.ki, g.kd, -2000, 2000),
                 before |-> NewPID(g.kp, g.ki, g.kd, -2000, 2000),
                 n |-> 0, e |-> 0, u |-> 0, steady |-> TRUE]

PIDCall ==
    /\ comp.pc = "pid"
    /\ \E e \in PIDErrs :
         LET raw == PIDRaw(comp.pid, e)
             clamps == raw > comp.pid.umax \/ raw < comp.pid.umin
             still == comp.steady /\ clamps /\ (comp.n = 0 \/ e = comp.e)
             r == PIDStep(comp.pid, e)
         IN  /\ \/ comp.n < MaxFree
                \/ still /\ comp.n < MaxCalls
             /\ comp' = [comp EXCEPT !.pid = r.pid, !.before = comp.pid,
                                     !.n = comp.n + 1, !.e = e, !.u = r.u,
                                     !.steady = still]
    /\ UNCHANGED <<simVars, sw, rec, pipe>>

PIDSpec == InitPID /\ [][PIDCall]_vars

(***************************************************************************)
(* The turbulence process driven on its own: Turbulence(theta = 0.3,       *)
(* sigma = 0.2, seed) as sim.run constructs it, then MaxTurbCalls calls of *)
(* step(level) with levels among calm (0), run_demo's 0.35 and a storm.    *)
(* comp keeps the process before the last call and the level passed.       *)
(***************************************************************************)
TurbLevels == {0, 350, 40000}

InitTurb ==
    /\ InitEpisodes(<<>>, {0})
    /\ sw = SweepOff
    /\ rec = RecOff
    /\ pipe = PipeOff
    /\ \E sd \in 0..MaxSeed :
         comp = [pc |-> "turb", turb |-> NewTurbulence(300, 200, sd),
                 before |-> NewTurbulence(300, 200, sd), n |-> 0, level |-> 0]

TurbCall ==
    /\ comp.pc = "turb"
    /\ comp.n < MaxTurbCalls
    /\ \E level \in TurbLevels :
         comp' = [comp EXCEPT !.turb = TurbStep(comp.turb, level),
                              !.before = comp.turb, !.n = comp.n + 1,
                              !.level = level]
    /\ UNCHANGED <<simVars, sw, rec, pipe>>

TurbSpec == InitTurb /\ [][TurbCall]_vars

(***************************************************************************)
(* _neighbor_mean applied on its own to a field x of a grid of h rows and  *)
(* w columns, 2 <= h, w <= MaxGrid, with cell values 0 and 0.12 (thirds,   *)
(* fifths and eighths of a sum of such values are whole milli-units, so no *)
(* mean is rounded).                                                       *)
(***************************************************************************)
FieldVals == {0, 120}

InitNeigh ==
    /\ InitEpisodes(<<>>, {0})
    /\ sw = SweepOff
    /\ rec = RecOff
    /\ pipe = PipeOff
    /\ \E h \in 2..MaxGrid, w \in 2..MaxGrid :
         \E x \in [Cells(h, w) -> FieldVals] :
            comp = [pc |-> "neigh", h |-> h, w |-> w, x |-> x, out |-> x]

NeighCall ==
    /\ comp.pc = "neigh"
    /\ comp' = [comp EXCEPT !.pc = "neigh_done",
                            !.out = _neighbor_mean(comp.x, comp.h, comp.w)]
    /\ UNCHANGED <<simVars, sw, rec, pipe>>

NeighSpec == InitNeigh /\ [][NeighCall]_vars

(***************************************************************************)
(* scripts/run_sweep_and_upload.py : main.  The environment of one run is  *)
(* fixed at the start: the exit code of the sweep subprocess (sweep_rc),   *)
(* whether metrics_summary_raw.csv is in the resolved output directory     *)
(* once the sweep is over (raw_exists), what scripts/qc_after_sweep.py     *)
(* finds in it (qc: every column and enough seeds, a missing column, a     *)
(* group below min_seeds, or an uncaught exception such as an unreadable   *)
(* file), the upload configuration (env),                                  *)
(* the number of files under the output directory (nfiles), the file       *)
(* whose upload raises HttpResponseError (fail_at, 0 for none) and whether *)
(* the upload of latest.txt raises (latest_fails).                         *)
(*                                                                         *)
(* pipe.steps lists the steps of main started so far, pipe.uploaded counts *)
(* the files uploaded, pipe.latest says latest.txt was written, and        *)
(* pipe.code is the wrapper's exit code once pipe.pc = "exited".           *)
(***************************************************************************)
QCFindings == {"ok", "missing_columns", "too_few_seeds", "exception"}

\* the exit code of qc_after_sweep.py main
QCExit(q) == CASE q = "missing_columns" -> 2
               [] q = "too_few_seeds" -> 3
               [] q = "exception" -> 1
               [] OTHER -> 0

UploadEnvs == {"sas", "mi", "no_url", "no_sas", "mi_fail"}

PipeRuns ==
    { [sweep_rc |-> s, raw_exists |-> r, qc |-> q, env |-> e, nfiles |-> n,
       fail_at |-> f, latest_fails |-> l] :
        s \in {0, 1}, r \in BOOLEAN, q \in QCFindings, e \in UploadEnvs,
        n \in 1..MaxFiles, f \in 0..MaxFiles, l \in BOOLEAN }

InitPipe ==
    /\ InitEpisodes(<<>>, {0})
    /\ sw = SweepOff
    /\ rec = RecOff
    /\ comp = CompOff
    /\ \E r \in PipeRuns :
         /\ r.fail_at <= r.nfiles
         /\ pipe = [pc |-> "start", in |-> r, steps |-> <<>>, uploaded |-> 0,
                    latest |-> FALSE, code |-> 0]

\* sys.exit(rc)
Exit(rc) == [pipe EXCEPT !.pc = "exited", !.code = rc]

\* run_qc that logs a failed QC and goes on
RunQCNoGate ==
    /\ pipe.pc = "sweep_done"
    /\ pipe' = IF ~pipe.in.raw_exists
                THEN [Exit(2) EXCEPT !.steps = Append(pipe.steps, "qc")]
                ELSE [pipe EXCEPT !.pc = "qc_done",
                                  !.steps = Append(pipe.steps, "qc")]
    /\ UNCHANGED <<simVars, sw, rec, comp>>

\* main line 178: run_sweep(args)
RunSweep ==
    /\ pipe.pc = "start"
    /\ pipe' = IF pipe.in.sweep_rc # 0
                THEN [Exit(pipe.in.sweep_rc) EXCEPT !.steps = Append(pipe.steps, "sweep")]
                ELSE [pipe EXCEPT !.pc = "sweep_done",
                                  !.steps = Append(pipe.steps, "sweep")]
    /\ UNCHANGED <<simVars, sw, rec, comp>>

\* main line 181: run_qc(outdir, min_seeds)
RunQC ==
    /\ pipe.pc = "sweep_done"
    /\ pipe' = IF ~pipe.in.raw_exists
                THEN [Exit(2) EXCEPT !.steps = Append(pipe.steps, "qc")]
                ELSE IF QCExit(pipe.in.qc) # 0
                THEN [Exit(QCExit(pipe.in.qc)) EXCEPT !.steps = Append(pipe.steps, "qc")]
                ELSE [pipe EXCEPT !.pc = "qc_done",
                                  !.steps = Append(pipe.steps, "qc")]
    /\ UNCHANGED <<simVars, sw, rec, comp>>

\* main line 184, upload_artifacts up to its loop: the output directory
\* exists (the raw CSV is in it), then get_blob_client()
StartUpload ==
    /\ pipe.pc = "qc_done"
    /\ pipe' = IF pipe.in.env \in {"sas", "mi"}
                THEN [pipe EXCEPT !.pc = "uploading",
                                  !.steps = Append(pipe.steps, "upload")]
                ELSE [Exit(4) EXCEPT !.steps = Append(pipe.steps, "upload")]
    /\ UNCHANGED <<simVars, sw, rec, comp>>

\* one pass of the loop of upload_artifacts: upload_blob of the next file;
\* HttpResponseError is logged and raised again, and ends the wrapper with
\* a traceback (exit code 1)
UploadFile ==
    /\ pipe.pc = "uploading"
    /\ pipe.uploaded < pipe.in.nfiles
    /\ pipe' = IF pipe.in.fail_at = pipe.uploaded + 1
                THEN Exit(1)
                ELSE [pipe EXCEPT !.uploaded = pipe.uploaded + 1]
    /\ UNCHANGED <<simVars, sw, rec, comp>>

\* line 158, after the loop: upload_blob("latest.txt"), then main ends
UpdateLatest ==
    /\ pipe.pc = "uploading"
    /\ pipe.uploaded = pipe.in.nfiles
    /\ pipe' = IF pipe.in.latest_fails
                THEN Exit(1)
                ELSE [Exit(0) EXCEPT !.latest = TRUE]
    /\ UNCHANGED <<simVars, sw, rec, comp>>

NextPipe == RunSweep \/ RunQC \/ StartUpload \/ UploadFile \/ UpdateLatest

PipeSpec == InitPipe /\ [][NextPipe]_vars


(***************************************************************************)
(*                                Claims                                   *)
(***************************************************************************)
\* run has returned (and perhaps metrics_from_log has been applied)
Finished(ep) == pc[ep] \in {"returned", "done", "raised"}

Records(ep) == Len(log[ep].t)

(***************************************************************************)
(* C1: determinism.  Two executions of sim.run with the same seed and the  *)
(* same configuration produce the same per-step log, and the same metrics. *)
(* Stated for the two episodes of one process, once both have finished.    *)
(***************************************************************************)
C1_Determinism ==
    (cfg[1] = cfg[2] /\ Finished(1) /\ Finished(2))
      => /\ log[1] = log[2]
         /\ (pc[1] = "done" /\ pc[2] = "done") => metrics[1] = metrics[2]

(***************************************************************************)
(* C2: crash implies halted log.  A returned log that records              *)
(* crashed = true has strictly fewer than T records.                       *)
(***************************************************************************)
C2_CrashImpliesShortLog ==
    \A ep \in Episodes :
        (Finished(ep) /\ (\E k \in 1..Records(ep) : log[ep].crashed[k]))
          => Records(ep) < cfg[ep].T

(***************************************************************************)
(* C3: sustained-divergence termination.  The run ends early only when the *)
(* divergence condition has held on DIVERGE_HOLD consecutive steps; one    *)
(* divergent step does not end it (so DIVERGE_HOLD is at least 2): a log   *)
(* cut short ends with at least two consecutive divergent records.         *)
(***************************************************************************)
C3_SustainedDivergence ==
    \A ep \in Episodes :
        (Finished(ep) /\ Records(ep) < cfg[ep].T)
          => /\ Records(ep) >= 2
             /\ log[ep].crashed[Records(ep)]
             /\ log[ep].crashed[Records(ep) - 1]

(***************************************************************************)
(* C4: stability invariant.  After construction and after every step_ca,   *)
(* every cell of the stability field lies in [0, 1].                       *)
(***************************************************************************)
C4_StabilityInvariant ==
    \A ep \in Episodes : \A c \in Cells(state[ep].h, state[ep].w) :
        0 <= state[ep].s[c] /\ state[ep].s[c] <= 1000

\* a step at storm level has driven a cell's stability onto the lower clip,
\* after an earlier step
C4_Witness ==
    \E ep \in Episodes :
        /\ Records(ep) >= 2
        /\ log[ep].turb[Records(ep)] = 40000
        /\ \E c \in Cells(state[ep].h, state[ep].w) : state[ep].s[c] = 0

(***************************************************************************)
(* C5: a horizon T <= 0 is rejected before any simulation step or metric   *)
(* computation: sim.run returns no log for it, and run_episode leaves by   *)
(* an exception raised before its simulation loop (line 113).              *)
(***************************************************************************)
C5_HorizonRejected ==
    /\ \A ep \in Episodes :
         (pc[ep] # "off" /\ cfg[ep].T <= 0) => ~Finished(ep)
    /\ (sw.pc # "off" /\ sw.cfg.T <= 0)
         => \/ sw.pc = "start"
            \/ sw.pc = "raised" /\ sw.at < 113

(***************************************************************************)
(* C6: run_episode rejects a controller name outside CONTROLLERS and a     *)
(* failure token outside FAILURE before the simulation loop (line 113);    *)
(* it returns no metrics row for them.                                     *)
(***************************************************************************)
C6_TokensRejected ==
    (/\ sw.pc # "off"
     /\ \/ sw.cfg.controller \notin CONTROLLERS
        \/ sw.cfg.failure \notin FAILURE)
      => \/ sw.pc = "start"
         \/ sw.pc = "raised" /\ sw.at < 113

(***************************************************************************)
(* C7: metrics_from_log never raises, whatever the length of the log.      *)
(***************************************************************************)
C7_MetricsNeverRaise == \A ep \in Episodes : pc[ep] # "raised"

(***************************************************************************)
(* C8: recovery needs a full hold window.  With hysteresis < threshold and *)
(* a series that exceeded threshold, time_to_recover is the earliest index *)
(* whose min_hold entries are all below hysteresis in magnitude, and 0     *)
(* when there is none; a longest run of min_hold - 1 gives 0, and a run of *)
(* exactly min_hold that ends at the last entry is found.                  *)
(***************************************************************************)
InBand(e, k) == -RecHysteresis < e[k] /\ e[k] < RecHysteresis

Exceeded(e) == \E k \in 1..Len(e) : e[k] > RecThreshold \/ e[k] < -RecThreshold

\* the 0-based indices at which a run of n entries inside the band starts
RunStarts(e, n) ==
    { i \in 0..(Len(e) - n) : \A k \in (i + 1)..(i + n) : InBand(e, k) }

C8_FullHoldWindow ==
    (rec.pc = "done" /\ RecHysteresis < RecThreshold /\ Exceeded(rec.error))
      => LET w == RunStarts(rec.error, RecMinHold)
             n == Len(rec.error)
         IN  /\ w # {} => /\ rec.time_to_recover \in w
                          /\ \A i \in w : rec.time_to_recover <= i
             /\ w = {} => rec.time_to_recover = 0
             /\ (RunStarts(rec.error, RecMinHold - 1) # {} /\ w = {})
                  => rec.time_to_recover = 0
             /\ w = {n - RecMinHold} => rec.time_to_recover = n - RecMinHold

\* the only full window is the one that ends at the last entry
C8_Witness ==
    /\ rec.pc = "done"
    /\ Exceeded(rec.error)
    /\ Len(rec.error) > RecMinHold
    /\ RunStarts(rec.error, RecMinHold) = {Len(rec.error) - RecMinHold}
    /\ rec.time_to_recover = Len(rec.error) - RecMinHold

C10_MetricsClamped ==
    /\ \A ep \in Episodes :
         pc[ep] = "done" =>
           /\ metrics[ep].overshoot >= 0
           /\ 0 <= metrics[ep].control_effort
           /\ metrics[ep].control_effort * Records(ep)
                <= SeqSum(AbsSeq(log[ep].u_eff))
    /\ sw.pc = "returned" =>
         /\ sw.row.overshoot >= 0
         /\ 0 <= sw.row.control_effort
         /\ sw.row.control_effort * Len(sw.u) <= SeqSum(AbsSeq(sw.u))

(***************************************************************************)
(* C11: anti-windup bound.  When PID.step is called repeatedly with the    *)
(* same error e and every call clamps, the accumulator (from i = 0)        *)
(* satisfies |i| <= |e| / (1 - antiwindup) after every call.               *)
(***************************************************************************)
C11_AntiWindupBound ==
    (comp.pc = "pid" /\ comp.n >= 1 /\ comp.steady)
      => Abs(comp.pid.i) * (1000 - comp.pid.antiwindup) <= Abs(comp.e) * 1000

\* more calls than 1 / (1 - antiwindup), all clamped, the same error
C11_Witness ==
    /\ comp.pc = "pid"
    /\ comp.steady
    /\ comp.n > 20
    /\ Abs(comp.pid.i) > 12 * Abs(comp.e)

(***************************************************************************)
(* C12: controller output clamp.  The value PID.step returns lies in       *)
(* [umin, umax]; the accumulator is multiplied by the anti-windup factor   *)
(* on the calls whose unclamped output fell outside [umin, umax], and on   *)
(* the others it is the plain sum and the output is returned unclamped.    *)
(***************************************************************************)
C12_OutputClamp ==
    (comp.pc = "pid" /\ comp.n >= 1)
      => LET p == comp.before
             acc == p.i + comp.e
             raw == Milli(p.kp * comp.e) + Milli(p.ki * acc)
                      + Milli(p.kd * (comp.e - p.prev_e))
         IN  /\ p.umin <= comp.u /\ comp.u <= p.umax
             /\ (raw > p.umax \/ raw < p.umin)
                  => comp.pid.i = Milli(acc * p.antiwindup)
             /\ (p.umin <= raw /\ raw <= p.umax)
                  => comp.pid.i = acc /\ comp.u = raw

\* a call clamped at umin with a non-zero accumulator, after a call that
\* did not clamp
C12_Witness ==
    /\ comp.pc = "pid"
    /\ comp.n >= 2
    /\ comp.u = comp.before.umin
    /\ comp.before.i > 0
    /\ comp.pid.i = Milli((comp.before.i + comp.e) * 950)
    /\ comp.pid.i # comp.before.i + comp.e

(***************************************************************************)
(* C13: actuator rate limit.  With tau = 0.3, rate = 0.5, dt = 1 and       *)
(* umax = 2, the effective output of a step differs from the output of the *)
(* step before (0 before the first) by at most rate * dt, so a command     *)
(* further than rate * dt from that output is not reached in one step.     *)
(***************************************************************************)
C13_RateLimit ==
    \A ep \in Episodes : \A k \in 1..Records(ep) :
        LET prev == IF k = 1 THEN 0 ELSE log[ep].u_eff[k - 1]
            cmd == Clip(log[ep].u_cmd[k], -act[ep].umax, act[ep].umax)
        IN  /\ Abs(log[ep].u_eff[k] - prev) <= act[ep].rate
            /\ Abs(cmd - prev) > act[ep].rate => log[ep].u_eff[k] # cmd

(***************************************************************************)
(* C14: the gain-suppression fault is a partial override.  On a step t     *)
(* inside the failure window the controller's output is computed with      *)
(* ki = kd = 0; after every step, inside the window or not, ki and kd are  *)
(* the configured values; and the fault logic resets neither the integral  *)
(* accumulator, which goes on accumulating the error (scaled by the        *)
(* anti-windup factor when the output clamps), nor the previous error.     *)
(***************************************************************************)
C14_StepOf(ep) ==
    LET c == cfg[ep]
        n == Len(log'[ep].t)
        e == log'[ep].a_ref[n] - mean_attitude(state[ep])
        acc == pid[ep].i + e
    IN  /\ InWindow(c.failure_window, t[ep])
             => log'[ep].u_cmd[n] = Clip(Milli(c.kp * e), -2000, 2000)
        /\ pid'[ep].ki = c.ki
        /\ pid'[ep].kd = c.kd
        /\ pid'[ep].prev_e = e
        /\ pid'[ep].i \in {acc, Milli(acc * 950)}

C14_PartialOverride ==
    [][\A ep \in Episodes : log'[ep] # log[ep] => C14_StepOf(ep)]_vars

\* the step inside the window <<1, 2>> has been taken with non-zero ki and
\* kd configured, a non-zero accumulator before and after it, and an
\* output below the clamp
C14_Witness ==
    \E ep \in Episodes :
        /\ cfg[ep].failure_window = <<1, 2>>
        /\ Records(ep) = 2
        /\ cfg[ep].ki # 0 /\ pid[ep].ki = cfg[ep].ki
        /\ pid[ep].i # 0
        /\ pid[ep].i # pid[ep].prev_e
        /\ Abs(log[ep].u_cmd[2]) < 2000

(***************************************************************************)
(* C15: episode isolation.  Two episodes whose steps are interleaved in    *)
(* any order share no mutable state: the log of each is the log the same   *)
(* episode produces when it runs alone in the process.                     *)
(***************************************************************************)
C15_Isolation ==
    \A ep \in Episodes :
        Finished(ep) => log[ep] = run(cfg[ep], np_random.seed)

(***************************************************************************)
(* C16: disturbance at zero intensity.  Every call of Turbulence.step      *)
(* consumes one draw of the stream; a call with level = 0 sets x to        *)
(* (1 - theta * dt) * x whatever the draw is, so x = 0 stays 0 and the     *)
(* magnitude of x never increases.                                         *)
(***************************************************************************)
C16_CalmStep ==
    (comp.pc = "turb" /\ comp.n >= 1)
      => LET b == comp.before
         IN  /\ comp.turb.pos = b.pos + 1
             /\ comp.level = 0 =>
                  /\ comp.turb.x = b.x - Milli(b.theta * b.x)
                  /\ Abs(comp.turb.x) <= Abs(b.x)
                  /\ b.x = 0 => comp.turb.x = 0

\* a calm call from a non-zero x, with a non-zero draw consumed by it, has
\* pulled x toward 0
C16_Witness ==
    /\ comp.pc = "turb"
    /\ comp.level = 0
    /\ comp.before.x # 0
    /\ NormalZ(comp.before.seed, comp.before.pos) # 0
    /\ Abs(comp.turb.x) < Abs(comp.before.x)

(***************************************************************************)
(* C17: pipeline gating of the upload wrapper.  The steps run in the order *)
(* sweep, QC, upload; the upload starts only after the sweep and QC both   *)
(* exited with code 0; when the sweep or QC exits non-zero (or the raw CSV *)
(* is missing: code 2) the wrapper exits with that code and uploads        *)
(* nothing; latest.txt is written only after every file was uploaded       *)
(* without error.                                                          *)
(***************************************************************************)
C17_PipelineGating ==
    pipe.pc # "off" =>
      LET in == pipe.in
          uploading == Len(pipe.steps) = 3
          gate == IF in.sweep_rc # 0 THEN in.sweep_rc
                  ELSE IF ~in.raw_exists THEN 2
                  ELSE IF in.qc = "missing_columns" THEN 2
                  ELSE IF in.qc = "too_few_seeds" THEN 3
                  ELSE IF in.qc = "exception" THEN 1
                  ELSE 0
      IN  /\ pipe.steps = SubSeq(<<"sweep", "qc", "upload">>, 1, Len(pipe.steps))
          /\ uploading => in.sweep_rc = 0 /\ in.raw_exists /\ in.qc = "ok"
          /\ ~uploading => pipe.uploaded = 0 /\ ~pipe.latest
          /\ (pipe.pc = "exited" /\ gate # 0)
               => pipe.code = gate /\ pipe.uploaded = 0 /\ ~pipe.latest
          /\ pipe.latest => pipe.uploaded = in.nfiles /\ in.fail_at = 0

\* a run stopped by QC with code 3, and nothing uploaded
C17_Witness ==
    /\ pipe.pc = "exited"
    /\ pipe.in.sweep_rc = 0
    /\ pipe.in.raw_exists
    /\ pipe.in.qc = "too_few_seeds"
    /\ pipe.code = 3
    /\ pipe.steps = <<"sweep", "qc">>
    /\ pipe.in.env = "sas"

(***************************************************************************)
(* C18: equivalence of the two neighbourhood formulations.  At every cell, *)
(* edge and corner cells included, the neighbour mean _neighbor_mean       *)
(* computes equals the mean of the field over the cells that               *)
(* CAState.neighbors yields for the cell.                                  *)
(***************************************************************************)
C18_NeighbourEquivalence ==
    comp.pc = "neigh_done" =>
      \A c \in Cells(comp.h, comp.w) :
          LET nb == neighbors(comp.h, comp.w, c)
          IN  comp.out[c] = DivZ(FieldSum(comp.x, nb), Cardinality(nb))

Columns == {"t", "attitude", "stability", "speed", "u_cmd", "u_eff", "turb",
            "crashed", "a_ref"}

LogShape(ep) ==
    LET n == Records(ep)
    IN  /\ DOMAIN log[ep] = Columns
        /\ \A col \in Columns : Len(log[ep][col]) = n
        /\ n <= cfg[ep].T
        /\ log[ep].t = [k \in 1..n |-> k - 1]
        /\ \A k \in 1..n : log[ep].crashed[k] => k = n
        /\ (Finished(ep) /\ \A k \in 1..n : ~log[ep].crashed[k]) => n = cfg[ep].T

AppendOnly(ep) ==
    \A col \in Columns :
        /\ Len(log'[ep][col]) >= Len(log[ep][col])
        /\ SubSeq(log'[ep][col], 1, Len(log[ep][col])) = log[ep][col]

C20_LogShape ==
    /\ [](\A ep \in Episodes : pc[ep] # "off" => LogShape(ep))
    /\ [][\A ep \in Episodes : AppendOnly(ep)]_vars

\* a run of horizon 3 cut short by a crash on its second step
C20_Witness ==
    \E ep \in Episodes :
        /\ Finished(ep)
        /\ cfg[ep].T = 3
        /\ Records(ep) = 2
        /\ log[ep].crashed[2]
        /\ log[ep].t = <<0, 1>>

=============================================================================
